---- MODULE Spec2Model ----
(***************************************************************************)
(* The request pipeline of the Allscreenshots TypeScript SDK: the error    *)
(* classes and parseApiError (src/errors), the client's request/execute    *)
(* method (src/client.ts) and the retry utilities (src/utils/retry.ts).    *)
(*                                                                         *)
(* One logical call of one client is modelled.  JavaScript values are      *)
(* represented as follows:                                                 *)
(*   - an optional value (a field that may be undefined, a nullable        *)
(*     header) is a set with at most one element: {} is undefined/null,    *)
(*     {v} is the value v;                                                 *)
(*   - NaN is the integer NaN, outside the range of every number the       *)
(*     model's inputs can produce;                                         *)
(*   - a header value is a sequence of one-character strings, so that      *)
(*     parseInt is computed digit by digit;                                *)
(*   - a response body on the wire is a Text: empty, raw (not JSON), or    *)
(*     the JSON encoding of an object.                                     *)
(***************************************************************************)
EXTENDS Integers, Sequences, FiniteSets, TLC

VARIABLES
    cur,         \* which logical call the per-call variables below belong to
    other,       \* the per-call variables of the other logical call in progress
    cfg,         \* the configuration object the constructor was given
    processEnv,  \* process.env.ALLSCREENSHOTS_API_KEY: {} when unset
    client,      \* the constructed AllscreenshotsClient (readonly fields)
    sent,        \* the URL object and the arguments of the most recent fetch(url, init)
    req,         \* the request descriptor of the logical call
    pc,          \* "new" | "noclient" | "idle" | "fetching" | "reading" | "waiting" | "succeeded" | "failed"
    attempt,     \* withRetry's loop index (0 when withRetry is bypassed)
    calls,       \* number of invocations of execute so far
    timers,      \* the armed setTimeout timers: the invocation that armed each, its duration
    resp,        \* status and headers of the response of the current attempt
    attemptErr,  \* {} or {the error thrown by the most recent attempt}
    thrown,      \* {} or {the error the caller's promise rejected with}
    result,      \* {} or {the value the caller's promise resolved with}
    delay,       \* the argument of the current/last backoff sleep, in ms
    waits        \* number of backoff sleeps started so far

vars == <<cur, other, cfg, processEnv, client, sent, req, pc, attempt, calls, timers, resp,
          attemptErr, thrown, result, delay, waits>>

-----------------------------------------------------------------------------
(* Bounds of the exploration *)

\* largest maxRetries a caller supplies
MaxRetriesBound == 2
\* largest zero-based attempt index at which calculateDelay is evaluated
MaxAttemptIndex == 5
\* the random factor of the jitter takes the values r / JitterSteps, r \in -JitterSteps..JitterSteps
JitterSteps == 1

-----------------------------------------------------------------------------
(* JavaScript helpers *)

NaN == -2

Max(a, b) == IF a >= b THEN a ELSE b
Min(a, b) == IF a <= b THEN a ELSE b

RECURSIVE Pow(_, _)
Pow(b, n) == IF n = 0 THEN 1 ELSE b * Pow(b, n - 1)

\* a * b on JS numbers
Times(a, b) == IF a = NaN \/ b = NaN THEN NaN ELSE a * b

\* the value of a defined optional
The(o) == CHOOSE v \in o : TRUE

\* truthiness of an optional string: undefined, null and "" are falsy
TruthyStr(o) == o # {} /\ o # {""}

\* String.prototype.includes
Includes(s, sub) ==
    \E i \in 1..(Len(s) - Len(sub) + 1) : SubSeq(s, i, i + Len(sub) - 1) = sub

Digits == {"0", "1", "2", "3", "4", "5", "6", "7", "8", "9"}
DigitValue(c) ==
    CASE c = "0" -> 0 [] c = "1" -> 1 [] c = "2" -> 2 [] c = "3" -> 3
      [] c = "4" -> 4 [] c = "5" -> 5 [] c = "6" -> 6 [] c = "7" -> 7
      [] c = "8" -> 8 [] c = "9" -> 9

\* length of the longest prefix of s made of decimal digits
RECURSIVE DigitPrefix(_)
DigitPrefix(s) ==
    IF s = <<>> \/ Head(s) \notin Digits THEN 0 ELSE 1 + DigitPrefix(Tail(s))

RECURSIVE DigitsValue(_, _)
DigitsValue(s, n) ==
    IF n = 0 THEN 0 ELSE DigitsValue(s, n - 1) * 10 + DigitValue(s[n])

\* parseInt(s, 10) for s without leading whitespace or sign: the digits up
\* to the first non-digit, NaN when s does not start with a digit
ParseInt(s) ==
    LET n == DigitPrefix(s) IN IF n = 0 THEN NaN ELSE DigitsValue(s, n)

-----------------------------------------------------------------------------
(* Error classes.  name is the class of the object; id stands for the      *)
(* object's identity: constructors leave it 0 and the attempt that throws  *)
(* the error sets it to the number of that invocation of execute.          *)

AllscreenshotsError(message, statusCode, errorCode) ==
    [name             |-> "AllscreenshotsError",
     message          |-> message,
     statusCode       |-> statusCode,
     errorCode        |-> errorCode,
     retryAfter       |-> {},
     validationErrors |-> {},
     id               |-> 0]

AuthenticationError(message) ==
    [AllscreenshotsError(message, {401}, {"AUTHENTICATION_ERROR"})
        EXCEPT !.name = "AuthenticationError"]

ValidationError(message, validationErrors) ==
    [AllscreenshotsError(message, {400}, {"VALIDATION_ERROR"})
        EXCEPT !.name = "ValidationError",
               !.validationErrors = validationErrors]

NotFoundError(message) ==
    [AllscreenshotsError(message, {404}, {"NOT_FOUND"})
        EXCEPT !.name = "NotFoundError"]

RateLimitError(message, retryAfter) ==
    [AllscreenshotsError(message, {429}, {"RATE_LIMIT_EXCEEDED"})
        EXCEPT !.name = "RateLimitError",
               !.retryAfter = retryAfter]

QuotaExceededError(message) ==
    [AllscreenshotsError(message, {402}, {"QUOTA_EXCEEDED"})
        EXCEPT !.name = "QuotaExceededError"]

ServerError(message, statusCode) ==
    [AllscreenshotsError(message, {statusCode}, {"SERVER_ERROR"})
        EXCEPT !.name = "ServerError"]

NetworkError(message) ==
    [AllscreenshotsError(message, {}, {"NETWORK_ERROR"})
        EXCEPT !.name = "NetworkError"]

TimeoutError(message) ==
    [AllscreenshotsError(message, {}, {"TIMEOUT_ERROR"})
        EXCEPT !.name = "TimeoutError"]

\* an error thrown by the runtime (TypeError, DOMException AbortError): not
\* an SDK error
RuntimeError(name, message) ==
    [AllscreenshotsError(message, {}, {}) EXCEPT !.name = name]

\* the classes of the SDK; every one extends AllscreenshotsError
SdkErrorNames ==
    {"AllscreenshotsError", "AuthenticationError", "ValidationError",
     "NotFoundError", "RateLimitError", "QuotaExceededError", "ServerError",
     "NetworkError", "TimeoutError"}

\* error instanceof AllscreenshotsError
IsSdkError(e) == e.name \in SdkErrorNames

-----------------------------------------------------------------------------
(* Bodies handed to parseApiError: null, a string, or a structured object *)

ApiErrorResponse(message, error, errorCode, validationErrors) ==
    [message |-> message, error |-> error, errorCode |-> errorCode,
     validationErrors |-> validationErrors]

EmptyObject == ApiErrorResponse({}, {}, {}, {})

NullBody == [t |-> "null", s |-> "", o |-> EmptyObject]
StringBody(s) == [t |-> "string", s |-> s, o |-> EmptyObject]
ObjectBody(o) == [t |-> "object", s |-> "", o |-> o]

\* typeof body === 'object' (true of null as well)
TypeofObject(body) == body.t \in {"null", "object"}

\* body?.field
OptField(body, f) == IF body.t = "object" THEN body.o[f] ELSE {}

HttpMessage(statusCode) == "HTTP " \o ToString(statusCode) \o " error"

\* faulty variant of the message: the error field is preferred to the message
\* field
ErrorMessageErrorFirst(statusCode, body) ==
    IF body.t = "string" THEN body.s
    ELSE IF TruthyStr(OptField(body, "error")) THEN The(OptField(body, "error"))
    ELSE IF TruthyStr(OptField(body, "message")) THEN The(OptField(body, "message"))
    ELSE HttpMessage(statusCode)

\* const message = typeof body === 'string' ? body
\*     : body?.message || body?.error || `HTTP ${statusCode} error`
ErrorMessage(statusCode, body) ==
    IF body.t = "string" THEN body.s
    ELSE IF TruthyStr(OptField(body, "message")) THEN The(OptField(body, "message"))
    ELSE IF TruthyStr(OptField(body, "error")) THEN The(OptField(body, "error"))
    ELSE HttpMessage(statusCode)

\* faulty variants of parseApiError: a fixed 500 for server errors and no
\* error code on generic errors; every status from 500 up taken as a server error
parseApiErrorFixed500(statusCode, body, retryAfter) ==
    LET message == ErrorMessage(statusCode, body)
        errorCode == IF TypeofObject(body) THEN OptField(body, "errorCode") ELSE {}
    IN  CASE statusCode = 400 ->
               ValidationError(message,
                   IF TypeofObject(body) THEN OptField(body, "validationErrors") ELSE {})
          [] statusCode \in {401, 403} -> AuthenticationError(message)
          [] statusCode = 402 -> QuotaExceededError(message)
          [] statusCode = 404 -> NotFoundError(message)
          [] statusCode = 429 -> RateLimitError(message, retryAfter)
          [] statusCode \in {500, 502, 503, 504} -> ServerError(message, 500)
          [] OTHER -> AllscreenshotsError(message, {statusCode}, {})

\* (faulty variant: 408 Request Timeout is taken for a server error)
parseApiError408(statusCode, body, retryAfter) ==
    LET message == ErrorMessage(statusCode, body)
        errorCode == IF TypeofObject(body) THEN OptField(body, "errorCode") ELSE {}
    IN  CASE statusCode = 400 ->
               ValidationError(message,
                   IF TypeofObject(body) THEN OptField(body, "validationErrors") ELSE {})
          [] statusCode \in {401, 403} -> AuthenticationError(message)
          [] statusCode = 402 -> QuotaExceededError(message)
          [] statusCode = 404 -> NotFoundError(message)
          [] statusCode = 429 -> RateLimitError(message, retryAfter)
          [] statusCode \in {408, 500, 502, 503, 504} -> ServerError(message, statusCode)
          [] OTHER -> AllscreenshotsError(message, {statusCode}, errorCode)

parseApiError5xx(statusCode, body, retryAfter) ==
    LET message == ErrorMessage(statusCode, body)
        errorCode == IF TypeofObject(body) THEN OptField(body, "errorCode") ELSE {}
    IN  CASE statusCode = 400 ->
               ValidationError(message,
                   IF TypeofObject(body) THEN OptField(body, "validationErrors") ELSE {})
          [] statusCode \in {401, 403} -> AuthenticationError(message)
          [] statusCode = 402 -> QuotaExceededError(message)
          [] statusCode = 404 -> NotFoundError(message)
          [] statusCode = 429 -> RateLimitError(message, retryAfter)
          [] statusCode >= 500 -> ServerError(message, statusCode)
          [] OTHER -> AllscreenshotsError(message, {statusCode}, errorCode)

\* (faulty variant: a server error keeps the retry-after hint)
parseApiErrorHintKept(statusCode, body, retryAfter) ==
    LET message == ErrorMessage(statusCode, body)
        errorCode == IF TypeofObject(body) THEN OptField(body, "errorCode") ELSE {}
    IN  CASE statusCode = 400 ->
               ValidationError(message,
                   IF TypeofObject(body) THEN OptField(body, "validationErrors") ELSE {})
          [] statusCode \in {401, 403} -> AuthenticationError(message)
          [] statusCode = 402 -> QuotaExceededError(message)
          [] statusCode = 404 -> NotFoundError(message)
          [] statusCode = 429 -> RateLimitError(message, retryAfter)
          [] statusCode \in {500, 502, 503, 504} ->
               [ServerError(message, statusCode) EXCEPT !.retryAfter = retryAfter]
          [] OTHER -> AllscreenshotsError(message, {statusCode}, errorCode)

parseApiError(statusCode, body, retryAfter) ==
    LET message == ErrorMessage(statusCode, body)
        errorCode == IF TypeofObject(body) THEN OptField(body, "errorCode") ELSE {}
    IN  CASE statusCode = 400 ->
               ValidationError(message,
                   IF TypeofObject(body) THEN OptField(body, "validationErrors") ELSE {})
          [] statusCode \in {401, 403} -> AuthenticationError(message)
          [] statusCode = 402 -> QuotaExceededError(message)
          [] statusCode = 404 -> NotFoundError(message)
          [] statusCode = 429 -> RateLimitError(message, retryAfter)
          [] statusCode \in {500, 502, 503, 504} -> ServerError(message, statusCode)
          [] OTHER -> AllscreenshotsError(message, {statusCode}, errorCode)

-----------------------------------------------------------------------------
(* Retry utilities (utils/retry.ts) *)

\* jitterFactor is held in percent: jitterPct = 100 * jitterFactor
RetryConfig(maxRetries, initialDelayMs, maxDelayMs, backoffMultiplier, jitterPct) ==
    [maxRetries |-> maxRetries, initialDelayMs |-> initialDelayMs,
     maxDelayMs |-> maxDelayMs, backoffMultiplier |-> backoffMultiplier,
     jitterPct |-> jitterPct]

RetryFields ==
    {"maxRetries", "initialDelayMs", "maxDelayMs", "backoffMultiplier", "jitterPct"}

DEFAULT_RETRY_CONFIG == RetryConfig(3, 1000, 30000, 2, 10)

\* { ...defaults, ...partial }: the keys present in partial win
Spread(defaults, partial) ==
    [f \in RetryFields |-> IF partial[f] # {} THEN The(partial[f]) ELSE defaults[f]]

RetryableNames == {"RateLimitError", "ServerError", "NetworkError", "TimeoutError"}

\* faulty variant: timeouts are not retried
isRetryableErrorNoTimeout(error) ==
    error.name \in {"RateLimitError", "ServerError", "NetworkError"}

isRetryableError(error) == error.name \in RetryableNames

\* faulty variant of calculateDelay: the jitter is twice as wide
calculateDelayDoubleJitter(attemptIndex, config, r) ==
    LET base == Min(config.initialDelayMs * Pow(config.backoffMultiplier, attemptIndex),
                    config.maxDelayMs)
        jitter == (2 * base * config.jitterPct * r) \div (100 * JitterSteps)
    IN  Max(0, base + jitter)

\* base = initialDelay * multiplier^attempt capped at maxDelay; the jitter is
\* base * jitterFactor * (r / JitterSteps), r drawn from -JitterSteps..JitterSteps;
\* the result is clamped at 0
calculateDelay(attemptIndex, config, r) ==
    LET base == Min(config.initialDelayMs * Pow(config.backoffMultiplier, attemptIndex),
                    config.maxDelayMs)
        jitter == (base * config.jitterPct * r) \div (100 * JitterSteps)
    IN  Max(0, base + jitter)

\* the delay before the next attempt: a rate-limit error's retry-after hint
\* (seconds) replaces the computed delay
\* (faulty variant: the hint is ignored)
retryDelayIgnoreHint(error, attemptIndex, config, r) ==
    calculateDelay(attemptIndex, config, r)

retryDelay(error, attemptIndex, config, r) ==
    IF error.name = "RateLimitError" /\ error.retryAfter # {}
    THEN Times(The(error.retryAfter), 1000)
    ELSE calculateDelay(attemptIndex, config, r)

\* withRetry's decision after a failed attempt: retry when the error is
\* retryable and the attempt index has not reached maxRetries
\* (faulty variants: an off-by-one bound; no retryability test)
shouldRetryOneMore(error, attemptIndex, config) ==
    isRetryableError(error) /\ attemptIndex <= config.maxRetries

shouldRetryAlways(error, attemptIndex, config) ==
    attemptIndex < config.maxRetries

shouldRetry(error, attemptIndex, config) ==
    isRetryableError(error) /\ attemptIndex < config.maxRetries

\* withRetry's loop index after a wait: one more
\* (faulty variant: an index is skipped)
NextAttemptIndexSkips(attemptIndex) == attemptIndex + 2

NextAttemptIndex(attemptIndex) == attemptIndex + 1

\* the value withRetry resolves with: the value the attempt returned
\* (faulty variant: the return is missing)
resolvedValueDropped(value) ==
    [t |-> "undefined", o |-> value.o, bytes |-> value.bytes]

resolvedValue(value) == value

\* the error withRetry rejects with when it gives up: the error just caught
\* (faulty variant: a wrapper is thrown)
surfacedErrorWrapped(error) ==
    AllscreenshotsError("Max retries exceeded", error.statusCode, error.errorCode)

surfacedError(error) == error

-----------------------------------------------------------------------------
(* Client configuration and construction *)

AllscreenshotsConfig(apiKey, baseUrl, timeout, retry, autoRetry) ==
    [apiKey |-> apiKey, baseUrl |-> baseUrl, timeout |-> timeout,
     retry |-> retry, autoRetry |-> autoRetry]

DEFAULT_CONFIG ==
    [baseUrl |-> "https://api.allscreenshots.com", timeout |-> 60000,
     autoRetry |-> TRUE]

\* Partial<RetryConfig>
PartialRetry(maxRetries, initialDelayMs, maxDelayMs, backoffMultiplier, jitterPct) ==
    [maxRetries |-> maxRetries, initialDelayMs |-> initialDelayMs,
     maxDelayMs |-> maxDelayMs, backoffMultiplier |-> backoffMultiplier,
     jitterPct |-> jitterPct]

NoRetryOptions == PartialRetry({}, {}, {}, {}, {})

\* faulty variant of the key lookup: the environment wins over the configuration
ResolveApiKeyEnvFirst(config, env) ==
    IF TruthyStr(env) THEN The(env)
    ELSE IF TruthyStr(config.apiKey) THEN The(config.apiKey)
    ELSE ""

\* faulty variant of the key lookup: the environment is not consulted
ResolveApiKeyConfigOnly(config, env) ==
    IF TruthyStr(config.apiKey) THEN The(config.apiKey) ELSE ""

\* config.apiKey || process.env.ALLSCREENSHOTS_API_KEY || ''
ResolveApiKey(config, env) ==
    IF TruthyStr(config.apiKey) THEN The(config.apiKey)
    ELSE IF TruthyStr(env) THEN The(env)
    ELSE ""

MissingKeyMessage ==
    "API key is required. Provide it via config or set ALLSCREENSHOTS_API_KEY environment variable."

\* the fields of a constructed client
NewClient(config, env) ==
    [apiKey      |-> ResolveApiKey(config, env),
     baseUrl     |-> IF TruthyStr(config.baseUrl) THEN The(config.baseUrl)
                     ELSE DEFAULT_CONFIG.baseUrl,
     timeout     |-> IF config.timeout # {} THEN The(config.timeout)
                     ELSE DEFAULT_CONFIG.timeout,
     autoRetry   |-> IF config.autoRetry # {} THEN The(config.autoRetry)
                     ELSE DEFAULT_CONFIG.autoRetry,
     retryConfig |-> Spread(DEFAULT_RETRY_CONFIG, config.retry)]

\* (faulty variant: the client keeps the configuration object and reads its
\* timeout, flag and retry options from it whenever it needs them)
HeldByReference(c, config) ==
    [c EXCEPT !.timeout = NewClient(config, {c.apiKey}).timeout,
              !.autoRetry = NewClient(config, {c.apiKey}).autoRetry,
              !.retryConfig = NewClient(config, {c.apiKey}).retryConfig]

\* the fields of client c once the configuration object it was constructed
\* from has become config: the constructor copied the strings, the number and
\* the flag and spread the retry options into an object of its own, and the
\* fields are readonly, so they are what they were
Held(c, config) == c

\* what the client holds when the constructor threw: there is no client
NoClient ==
    [apiKey |-> "", baseUrl |-> "", timeout |-> 0, autoRetry |-> FALSE,
     retryConfig |-> DEFAULT_RETRY_CONFIG]

\* the retry options callers supply
RetryInputs ==
    {NoRetryOptions}
    \cup {PartialRetry({n}, {}, {}, {}, {}) : n \in 0..MaxRetriesBound}
    \cup {PartialRetry({2}, {500}, {800}, {3}, {0}),
          PartialRetry({1}, {200}, {}, {}, {50}),
          PartialRetry({1}, {900}, {600}, {}, {0})}

Configs ==
    {AllscreenshotsConfig({"config-key"}, {}, {}, r, a) :
        r \in RetryInputs, a \in {{}, {FALSE}}}
    \cup {AllscreenshotsConfig({"config-key"}, {"custom.api.com"}, {}, r, {}) :
            r \in {PartialRetry({1}, {}, {}, {}, {})}}
    \cup {AllscreenshotsConfig({}, {"https://custom.api.com"}, {30000}, NoRetryOptions, {TRUE})}

\* the builder: its configuration starts empty and each with... sets a field
EmptyConfig == AllscreenshotsConfig({}, {}, {}, NoRetryOptions, {})

withApiKey(config, apiKey) == [config EXCEPT !.apiKey = {apiKey}]

\* baseUrl.replace(/\/+$/, '')
RECURSIVE StripTrailingSlashes(_)
StripTrailingSlashes(str) ==
    IF Len(str) > 0 /\ SubSeq(str, Len(str), Len(str)) = "/"
    THEN StripTrailingSlashes(SubSeq(str, 1, Len(str) - 1))
    ELSE str

withBaseUrl(config, baseUrl) ==
    [config EXCEPT !.baseUrl = {StripTrailingSlashes(baseUrl)}]

withAutoRetry(config, enabled) == [config EXCEPT !.autoRetry = {enabled}]

withTimeout(config, timeout) == [config EXCEPT !.timeout = {timeout}]

\* this.config.retry = retry
withRetry(config, retry) == [config EXCEPT !.retry = retry]

\* configurations handed to the constructor by builder.build()
BuiltConfigs ==
    {withAutoRetry(withBaseUrl(withApiKey(EmptyConfig, "test-key"),
                               "https://custom.api.com///"), FALSE)}

\* configurations with a base address that ends with a separator, handed to
\* the constructor directly
SlashConfigs ==
    {AllscreenshotsConfig({"config-key"}, {"https://custom.api.com/"}, {}, NoRetryOptions, {FALSE})}

\* values of process.env.ALLSCREENSHOTS_API_KEY: unset, or a key
EnvValues == {{}, {"env-key"}, {"other-key"}}

\* the (configuration, process.env.ALLSCREENSHOTS_API_KEY) pairs clients are
\* constructed from
Constructions ==
    {<<c, {}>> : c \in {c \in Configs \cup BuiltConfigs \cup SlashConfigs : c.apiKey # {}}}
    \cup {<<c, {"env-key"}>> : c \in {c \in Configs : c.apiKey = {}}}
    \cup {<<AllscreenshotsConfig({}, {}, {}, NoRetryOptions, {}), {}>>,
          <<AllscreenshotsConfig({""}, {}, {}, NoRetryOptions, {}), {}>>,
          <<AllscreenshotsConfig({}, {}, {}, NoRetryOptions, {}), {""}>>,
          <<AllscreenshotsConfig({"config-key"}, {}, {}, NoRetryOptions, {FALSE}), {"env-key"}>>}

-----------------------------------------------------------------------------
(* Requests, responses and values *)

\* new URL(s) throws a TypeError unless s is an absolute URL
ValidUrl(s) ==
    \E i \in 1..Len(s) : SubSeq(s, 1, i) \in {"http://", "https://"}

\* a request body: cyclic bodies make JSON.stringify throw
Body(cyclic) == [cyclic |-> cyclic]

\* scalar values of query parameters
Num(n) == [t |-> "number", n |-> n, s |-> ""]
Str(s) == [t |-> "string", n |-> 0, s |-> s]

\* one entry of options.query: the value is {} when undefined
Param(key, value) == [key |-> key, value |-> value]

\* a request descriptor without query parameters
Request(method, path, body, returnBinary) ==
    [method |-> method, path |-> path, query |-> <<>>, body |-> body,
     returnBinary |-> returnBinary]

\* a GET request descriptor with query parameters (in Object.entries order)
QueryRequest(path, query) ==
    [Request("GET", path, {}, FALSE) EXCEPT !.query = query]

NoRequest == Request("", "", {}, FALSE)

\* the calls the endpoint methods make
Requests ==
    {Request("GET", "/v1/usage", {}, FALSE),
     Request("POST", "/v1/screenshots", {Body(FALSE)}, TRUE),
     Request("POST", "/v1/screenshots/async", {Body(FALSE)}, FALSE),
     Request("POST", "/v1/screenshots/bulk", {Body(TRUE)}, FALSE),
     QueryRequest("/v1/schedules/schedule-123/history", <<Param("limit", {})>>),
     QueryRequest("/v1/screenshots/compose/preview",
                  <<Param("layout", {Str("grid")}),
                    Param("image_count", {Num(0)}),
                    Param("canvas_width", {}),
                    Param("canvas_height", {Num(10)}),
                    Param("aspect_ratios", {Str("16:9")})>>)}

\* JSON.stringify of a (non-cyclic) request body
JSONStringify(body) == "{\"url\":\"https://example.com\"}"

\* String(value) of a scalar
JsString(v) == IF v.t = "number" THEN ToString(v.n) ELSE v.s

\* the entries url.searchParams holds after the loop over options.query:
\* if (value !== undefined) url.searchParams.set(key, String(value))
\* (faulty variant: the test is if (value), which drops 0 and '')
RECURSIVE SearchParamsTruthy(_)
SearchParamsTruthy(query) ==
    IF query = <<>> THEN <<>>
    ELSE LET e == Head(query)
             keep == e.value # {} /\ The(e.value) \notin {Num(0), Str("")}
         IN  (IF keep THEN <<(<<e.key, JsString(The(e.value))>>)>> ELSE <<>>)
             \o SearchParamsTruthy(Tail(query))

RECURSIVE SearchParams(_)
SearchParams(query) ==
    IF query = <<>> THEN <<>>
    ELSE LET e == Head(query) IN
         (IF e.value # {} THEN <<(<<e.key, JsString(The(e.value))>>)>> ELSE <<>>)
         \o SearchParams(Tail(query))

\* the application/x-www-form-urlencoded form of a string
RECURSIVE FormEncode(_)
FormEncode(str) ==
    IF Len(str) = 0 THEN ""
    ELSE LET ch == SubSeq(str, 1, 1) IN
         (CASE ch = ":" -> "%3A"
            [] ch = "," -> "%2C"
            [] ch = "/" -> "%2F"
            [] ch = " " -> "+"
            [] OTHER -> ch)
         \o FormEncode(SubSeq(str, 2, Len(str)))

\* url.searchParams.toString()
RECURSIVE SearchString(_)
SearchString(params) ==
    IF params = <<>> THEN ""
    ELSE FormEncode(Head(params)[1]) \o "=" \o FormEncode(Head(params)[2])
         \o (IF Len(params) > 1 THEN "&" ELSE "")
         \o SearchString(Tail(params))

\* url.toString() of new URL(`${this.baseUrl}${path}`) with the search
\* parameters set
RequestUrl(c, rq) ==
    c.baseUrl \o rq.path
    \o (IF SearchParams(rq.query) = <<>> THEN ""
        ELSE "?" \o SearchString(SearchParams(rq.query)))

\* faulty variant of the fetch arguments: Accept does not follow the mode
FetchArgsAcceptJson(c, rq) ==
    [url     |-> RequestUrl(c, rq),
     searchParams |-> SearchParams(rq.query),
     method  |-> rq.method,
     headers |-> [h \in {"X-API-Key", "Content-Type", "Accept"} |->
                     IF h = "X-API-Key" THEN c.apiKey ELSE "application/json"],
     body    |-> IF rq.body # {} THEN {JSONStringify(The(rq.body))} ELSE {}]

\* faulty variant of the fetch arguments: a retry goes out without its body
\* and without its query string
FetchArgsRetryStripped(c, rq) ==
    [url     |-> IF waits > 0 THEN c.baseUrl \o rq.path ELSE RequestUrl(c, rq),
     searchParams |-> IF waits > 0 THEN <<>> ELSE SearchParams(rq.query),
     method  |-> rq.method,
     headers |-> [h \in {"X-API-Key", "Content-Type", "Accept"} |->
                     CASE h = "X-API-Key" -> c.apiKey
                       [] h = "Content-Type" -> "application/json"
                       [] h = "Accept" -> IF rq.returnBinary
                                          THEN "image/*,application/pdf"
                                          ELSE "application/json"],
     body    |-> IF rq.body # {} /\ waits = 0 THEN {JSONStringify(The(rq.body))} ELSE {}]

\* the arguments of fetch: the URL, the method, the three headers, the body
FetchArgs(c, rq) ==
    [url     |-> RequestUrl(c, rq),
     searchParams |-> SearchParams(rq.query),
     method  |-> rq.method,
     headers |-> [h \in {"X-API-Key", "Content-Type", "Accept"} |->
                     CASE h = "X-API-Key" -> c.apiKey
                       [] h = "Content-Type" -> "application/json"
                       [] h = "Accept" -> IF rq.returnBinary
                                          THEN "image/*,application/pdf"
                                          ELSE "application/json"],
     body    |-> IF rq.body # {} THEN {JSONStringify(The(rq.body))} ELSE {}]

\* no fetch has been made
NoFetch ==
    [url |-> "", searchParams |-> <<>>, method |-> "",
     headers |-> [h \in {"X-API-Key", "Content-Type", "Accept"} |-> ""],
     body |-> {}]

\* status, Retry-After header, and the body text once it has been read
Response(status, retryAfter) ==
    [status |-> status, retryAfter |-> retryAfter, text |-> {}]

NoResponse == Response(0, {})

\* response.ok
Ok(r) == r.status \in 200..299

Statuses == {200, 204, 400, 401, 402, 403, 404, 408, 418, 429, 500, 501, 502, 503, 504}

\* values of the Retry-After header: empty, seconds, an HTTP date
RetryAfterHeaders == {<<>>, <<"0">>, <<"5">>, <<"W", "e", "d">>}

Responses ==
    {Response(s, {}) : s \in Statuses}
    \cup {Response(s, {h}) : s \in {429, 503}, h \in RetryAfterHeaders}

\* structured bodies the service sends
Objects ==
    {EmptyObject,
     ApiErrorResponse({"Invalid URL"}, {}, {}, {}),
     ApiErrorResponse({}, {"Bad Request"}, {}, {}),
     ApiErrorResponse({"I'm a teapot"}, {"teapot"}, {"E_TEAPOT"}, {}),
     ApiErrorResponse({""}, {"Bad Request"}, {"E_CODE"}, {}),
     ApiErrorResponse({"Validation failed"}, {}, {}, {"url: Invalid format"})}

\* a body on the wire
EmptyText == [enc |-> "empty", s |-> "", o |-> EmptyObject]
RawText(s) == [enc |-> "raw", s |-> s, o |-> EmptyObject]
JsonText(o) == [enc |-> "json", s |-> "", o |-> o]

Texts == {EmptyText, RawText("Plain text error")} \cup {JsonText(o) : o \in Objects}

\* if (text) ...: a non-empty string
TruthyText(text) == text.enc # "empty"

\* JSON.parse(text) returns (instead of throwing)
Parses(text) == text.enc = "json"

\* the string a text is, as a parseApiError body
AsString(text) == StringBody(text.s)

\* values a call resolves with: null, a decoded object, a Buffer of the bytes
NullValue == [t |-> "null", o |-> EmptyObject, bytes |-> EmptyText]
JsonValue(o) == [t |-> "json", o |-> o, bytes |-> EmptyText]
BufferValue(text) == [t |-> "buffer", o |-> EmptyObject, bytes |-> text]

\* retryAfter ? parseInt(retryAfter, 10) : undefined
RetryAfterArg(header) ==
    IF header # {} /\ The(header) # <<>> THEN {ParseInt(The(header))} ELSE {}

\* messages of the TypeError a failed fetch rejects with
FetchFailures == {"fetch failed", "Load failed"}

AbortError == RuntimeError("AbortError", "This operation was aborted")

-----------------------------------------------------------------------------
(* execute: the catch block, and the decoding of a response *)

\* faulty variant of the catch block: the AbortError test is missing
CaughtAllNetwork(error, timeout) ==
    IF IsSdkError(error) THEN error
    ELSE IF Includes(error.message, "fetch")
    THEN NetworkError("Network error: " \o error.message)
    ELSE NetworkError("Unknown network error occurred")

\* catch (error) { ... }: what execute throws for a caught error (every
\* error the runtime throws here is an instance of Error)
Caught(error, timeout) ==
    IF IsSdkError(error) THEN error
    ELSE IF error.name = "AbortError"
    THEN TimeoutError("Request timed out after " \o ToString(timeout) \o "ms")
    ELSE IF Includes(error.message, "fetch")
    THEN NetworkError("Network error: " \o error.message)
    ELSE NetworkError("Unknown network error occurred")

\* binary mode, !response.ok: parsed || errorBody, where errorBody is the
\* text read ({} when the read failed)
BinaryErrorBody(read) ==
    IF read = {} THEN NullBody
    ELSE IF TruthyText(The(read)) /\ Parses(The(read)) THEN ObjectBody(The(read).o)
    ELSE AsString(The(read))

\* structured mode: body = null; if (text) try { body = JSON.parse(text) }
JsonBody(text) ==
    IF TruthyText(text) /\ Parses(text) THEN ObjectBody(text.o) ELSE NullBody

\* (faulty variant: a body that did not decode is returned as an empty object)
BodyValueEmptyObject(body) == JsonValue(body.o)

\* the value of a decoded structured body
BodyValue(body) == IF body.t = "object" THEN JsonValue(body.o) ELSE NullValue

\* setTimeout(() => controller.abort(), this.timeout) of invocation number id
\* of the current logical call
Timer(id, ms) == [call |-> cur, owner |-> id, ms |-> ms]

\* clearTimeout(timeoutId) of invocation number id
\* (faulty variant: the timer is left armed)
ClearTimeoutNoop(ts, id) == ts

\* (faulty variant: every armed timer of the process is cleared)
ClearTimeoutAll(ts, id) == {}

ClearTimeout(ts, id) == {t \in ts : ~(t.call = cur /\ t.owner = id)}

\* if (this.autoRetry) return withRetry(execute, this.retryConfig); return execute()
\* (faulty variant: the flag is ignored)
UseRetryAlways(c) == TRUE
UseRetry(c) == c.autoRetry

JitterDraws == (0 - JitterSteps)..JitterSteps

-----------------------------------------------------------------------------
(* The state machine of one logical call *)

\* the locals of one logical call: the closure of request/execute and of
\* withRetry
CallState(s, rq, p, att, n, r, e, th, res, d, w) ==
    [sent |-> s, req |-> rq, pc |-> p, attempt |-> att, calls |-> n, resp |-> r,
     attemptErr |-> e, thrown |-> th, result |-> res, delay |-> d, waits |-> w]

\* there is no other logical call
NoOther == CallState(NoFetch, NoRequest, "none", 0, 0, NoResponse, {}, {}, {}, 0, 0)

\* a logical call that has not been issued yet
NotIssued == CallState(NoFetch, NoRequest, "idle", 0, 0, NoResponse, {}, {}, {}, 0, 0)

\* the locals of the logical call the per-call variables belong to
Current ==
    CallState(sent, req, pc, attempt, calls, resp, attemptErr, thrown, result,
              delay, waits)

\* the inputs offered to a step: all of them when one call is followed, a
\* narrower choice when two calls are interleaved
Offered(all, narrow) == IF other = NoOther THEN all ELSE narrow

TwoCallConstructions ==
    {<<AllscreenshotsConfig({"config-key"}, {}, {}, PartialRetry({1}, {}, {}, {}, {}), {}), {}>>,
     <<AllscreenshotsConfig({"config-key"}, {}, {}, NoRetryOptions, {FALSE}), {}>>}

TwoCallRequests ==
    {Request("GET", "/v1/usage", {}, FALSE),
     Request("POST", "/v1/screenshots", {Body(FALSE)}, TRUE)}

TwoCallResponses == {Response(200, {}), Response(404, {}), Response(503, {})}

TwoCallTexts == {EmptyText, JsonText(ApiErrorResponse({"Invalid URL"}, {}, {}, {}))}

InitFrom(constructions) ==
    /\ \E cn \in constructions :
          /\ cfg = cn[1]
          /\ processEnv = cn[2]
    /\ client = NoClient
    /\ pc = "new"
    /\ thrown = {}
    /\ sent = NoFetch
    /\ req = NoRequest
    /\ attempt = 0
    /\ calls = 0
    /\ timers = {}
    /\ resp = NoResponse
    /\ attemptErr = {}
    /\ result = {}
    /\ delay = 0
    /\ waits = 0

\* one logical call on a client
Init ==
    /\ InitFrom(Constructions)
    /\ cur = 1
    /\ other = NoOther

\* two logical calls on the same client
InitTwoCalls ==
    /\ InitFrom(TwoCallConstructions)
    /\ cur = 1
    /\ other = NotIssued

\* the error the constructor throws when no key is found
ConstructionError == AuthenticationError(MissingKeyMessage)

\* new AllscreenshotsClient(cfg): throws when no key is found, else fixes the
\* fields of the client
Construct ==
    /\ pc = "new"
    /\ IF ResolveApiKey(cfg, processEnv) = ""
       THEN /\ pc' = "noclient"
            /\ thrown' = {ConstructionError}
            /\ UNCHANGED client
       ELSE /\ pc' = "idle"
            /\ client' = NewClient(cfg, processEnv)
            /\ UNCHANGED thrown
    /\ UNCHANGED <<cur, other, cfg, processEnv, sent, req, attempt, calls, timers, resp,
                   attemptErr, result, delay, waits>>

\* an attempt ended by throwing e: withRetry's catch, or the caller directly
\* when withRetry is bypassed
Fail(e, att, n) ==
    LET err == [e EXCEPT !.id = n] IN
    /\ attemptErr' = {err}
    /\ IF UseRetry(client) /\ shouldRetry(err, att, client.retryConfig)
       THEN /\ pc' = "waiting"
            /\ \E r \in Offered(JitterDraws, {0}) :
                  delay' = retryDelay(err, att, client.retryConfig, r)
            /\ waits' = waits + 1
            /\ UNCHANGED <<thrown, result>>
       ELSE /\ pc' = "failed"
            /\ thrown' = {IF UseRetry(client) THEN surfacedError(err) ELSE err}
            /\ delay' = 0
            /\ UNCHANGED <<result, waits>>

\* an attempt ended by returning v
Succeed(v) ==
    /\ pc' = "succeeded"
    /\ result' = {IF UseRetry(client) THEN resolvedValue(v) ELSE v}
    /\ delay' = 0
    /\ UNCHANGED <<attemptErr, thrown, waits>>

\* one invocation of execute up to its first await: URL, timer, fetch
StartAttempt(rq, att, n) ==
    /\ req' = rq
    /\ attempt' = att
    /\ calls' = n
    /\ resp' = NoResponse
    /\ IF ~ValidUrl(client.baseUrl \o rq.path)
       THEN /\ Fail(RuntimeError("TypeError", "Invalid URL"), att, n)
            /\ UNCHANGED <<sent, timers>>
       ELSE IF rq.body # {} /\ The(rq.body).cyclic
       THEN /\ Fail(Caught(RuntimeError("TypeError",
                               "Converting circular structure to JSON"),
                           client.timeout), att, n)
            /\ timers' = ClearTimeout(timers \cup {Timer(n, client.timeout)}, n)
            /\ UNCHANGED sent
       ELSE /\ sent' = FetchArgs(client, rq)
            /\ pc' = "fetching"
            /\ timers' = timers \cup {Timer(n, client.timeout)}
            /\ attemptErr' = {}
            /\ delay' = 0
            /\ UNCHANGED <<thrown, result, waits>>

\* a caller invokes an endpoint method
Call ==
    /\ pc = "idle"
    /\ \E rq \in Offered(Requests, TwoCallRequests) : StartAttempt(rq, 0, 1)
    /\ UNCHANGED <<cur, other, cfg, processEnv, client>>

\* an armed timer fires: controller.abort() on the controller of the
\* invocation that armed it; the fetch of that invocation, when pending,
\* rejects with an AbortError and the catch clears the timer
TimerFires ==
    /\ \E t \in {t \in timers : t.call = cur} :
          IF t.owner = calls /\ pc = "fetching"
          THEN /\ Fail(Caught(AbortError, client.timeout), attempt, calls)
               /\ timers' = ClearTimeout(timers \ {t}, calls)
          ELSE /\ timers' = timers \ {t}
               /\ UNCHANGED <<pc, attemptErr, thrown, result, delay, waits>>
    /\ UNCHANGED <<cur, other, cfg, processEnv, client, sent, req, attempt, calls, resp>>

\* fetch rejects: DNS, connection refused, TLS, ...
FetchRejects ==
    /\ pc = "fetching"
    /\ \E m \in Offered(FetchFailures, {"fetch failed"}) :
          Fail(Caught(RuntimeError("TypeError", m), client.timeout), attempt, calls)
    /\ timers' = ClearTimeout(timers, calls)
    /\ UNCHANGED <<cur, other, cfg, processEnv, client, sent, req, attempt, calls, resp>>

\* fetch resolves with the status and headers; clearTimeout
ResponseArrives ==
    /\ pc = "fetching"
    /\ \E r \in Offered(Responses, TwoCallResponses) : resp' = r
    /\ pc' = "reading"
    /\ timers' = ClearTimeout(timers, calls)
    /\ UNCHANGED <<cur, other, cfg, processEnv, client, sent, req, attempt, calls, attemptErr,
                   thrown, result, delay, waits>>

\* the body has been read as text (or as bytes)
BodyRead ==
    /\ pc = "reading"
    /\ \E text \in Offered(Texts, TwoCallTexts) :
          /\ resp' = [resp EXCEPT !.text = {text}]
          /\ IF req.returnBinary
             THEN IF ~Ok(resp)
                  THEN Fail(Caught(parseApiError(resp.status, BinaryErrorBody({text}),
                                                 RetryAfterArg(resp.retryAfter)),
                                   client.timeout), attempt, calls)
                  ELSE Succeed(BufferValue(text))
             ELSE IF ~Ok(resp)
                  THEN Fail(Caught(parseApiError(resp.status, JsonBody(text),
                                                 RetryAfterArg(resp.retryAfter)),
                                   client.timeout), attempt, calls)
                  ELSE Succeed(BodyValue(JsonBody(text)))
    /\ timers' = IF Ok(resp) THEN timers ELSE ClearTimeout(timers, calls)
    /\ UNCHANGED <<cur, other, cfg, processEnv, client, sent, req, attempt, calls>>

\* reading the body rejects (the connection broke after the headers)
BodyReadFails ==
    /\ pc = "reading"
    /\ IF req.returnBinary /\ ~Ok(resp)
       THEN Fail(Caught(parseApiError(resp.status, BinaryErrorBody({}),
                                      RetryAfterArg(resp.retryAfter)),
                        client.timeout), attempt, calls)
       ELSE Fail(Caught(RuntimeError("TypeError", "terminated"), client.timeout),
                 attempt, calls)
    /\ timers' = ClearTimeout(timers, calls)
    /\ UNCHANGED <<cur, other, cfg, processEnv, client, sent, req, attempt, calls, resp>>

\* the backoff sleep ends: the loop index grows and execute is invoked again
SleepDone ==
    /\ pc = "waiting"
    /\ StartAttempt(req, NextAttemptIndex(attempt), calls + 1)
    /\ UNCHANGED <<cur, other, cfg, processEnv, client>>

\* the program (or anything else in the process) sets or deletes
\* process.env.ALLSCREENSHOTS_API_KEY
EnvChanges ==
    /\ \E e \in EnvValues \ {processEnv} : processEnv' = e
    /\ UNCHANGED <<cur, other, cfg, client, sent, req, pc, attempt, calls, timers, resp,
                   attemptErr, thrown, result, delay, waits>>

Next ==
    \/ Construct
    \/ EnvChanges
    \/ Call
    \/ TimerFires
    \/ FetchRejects
    \/ ResponseArrives
    \/ BodyRead
    \/ BodyReadFails
    \/ SleepDone

Spec == Init /\ [][Next]_vars

\* the event loop turns to the other logical call: the per-call variables
\* now hold its locals
Switch ==
    /\ other # NoOther
    /\ pc \notin {"new", "noclient"}
    /\ other' = Current
    /\ cur' = 3 - cur
    /\ sent' = other.sent
    /\ req' = other.req
    /\ pc' = other.pc
    /\ attempt' = other.attempt
    /\ calls' = other.calls
    /\ resp' = other.resp
    /\ attemptErr' = other.attemptErr
    /\ thrown' = other.thrown
    /\ result' = other.result
    /\ delay' = other.delay
    /\ waits' = other.waits
    /\ UNCHANGED <<cfg, processEnv, client, timers>>

NextTwoCalls ==
    \/ Construct
    \/ Switch
    \/ Call
    \/ TimerFires
    \/ FetchRejects
    \/ ResponseArrives
    \/ BodyRead
    \/ BodyReadFails
    \/ SleepDone

SpecTwoCalls == InitTwoCalls /\ [][NextTwoCalls]_vars

\* one logical call under the scheduling the runtime guarantees: a pending
\* fetch eventually resolves, rejects or is aborted by its timer, and a
\* backoff sleep eventually ends; nothing makes the read of a response body
\* end
LiveConstructions ==
    {<<AllscreenshotsConfig({"config-key"}, {}, {}, PartialRetry({n}, {}, {}, {}, {}), {}), {}>> :
        n \in 1..MaxRetriesBound}
    \cup {<<AllscreenshotsConfig({"config-key"}, {}, {}, NoRetryOptions, {FALSE}), {}>>}

InitLive ==
    /\ InitFrom(LiveConstructions)
    /\ cur = 1
    /\ other = NoOther

NextLive ==
    \/ Construct
    \/ Call
    \/ TimerFires
    \/ FetchRejects
    \/ ResponseArrives
    \/ BodyRead
    \/ BodyReadFails
    \/ SleepDone

SpecLive ==
    /\ InitLive
    /\ [][NextLive]_vars
    /\ WF_vars(TimerFires \/ FetchRejects \/ ResponseArrives)
    /\ []<>(pc # "waiting")

\* the same, where moreover every read of a response body ends
SpecLiveBodies ==
    /\ SpecLive
    /\ []<>(pc # "reading")

-----------------------------------------------------------------------------
(* a client whose builder, or whose configuration object, is used again after
   the client was constructed *)

\* what the caller does to the builder or to the object after construction
Mutations(config) ==
    {withTimeout(config, 1),
     withRetry(config, PartialRetry({0}, {1}, {1}, {1}, {0})),
     withAutoRetry(config, FALSE)}

MutableConstructions ==
    {<<AllscreenshotsConfig({"config-key"}, {}, {}, PartialRetry({1}, {}, {600}, {}, {}), {}), {}>>,
     <<withRetry(withTimeout(withApiKey(EmptyConfig, "test-key"), 5000),
                 PartialRetry({}, {200}, {}, {}, {0})), {}>>}

InitMutable ==
    /\ InitFrom(MutableConstructions)
    /\ cur = 1
    /\ other = NoOther

\* builder.withTimeout(...), builder.withRetry(...), config.autoRetry = ...,
\* at any moment after the constructor returned
MutateConfig ==
    /\ pc \notin {"new", "noclient"}
    /\ \E c \in Mutations(cfg) \ {cfg} :
          /\ cfg' = c
          /\ client' = Held(client, c)
    /\ UNCHANGED <<cur, other, processEnv, sent, req, pc, attempt, calls, timers, resp,
                   attemptErr, thrown, result, delay, waits>>

NextMutable ==
    \/ Construct
    \/ MutateConfig
    \/ Call
    \/ TimerFires
    \/ FetchRejects
    \/ ResponseArrives
    \/ BodyRead
    \/ BodyReadFails
    \/ SleepDone

SpecMutable == InitMutable /\ [][NextMutable]_vars

-----------------------------------------------------------------------------
(* Vocabulary of the properties *)

\* the error kind of the specification's taxonomy an error object belongs to
KindOf(e) ==
    CASE e.name = "ValidationError" -> "validation"
      [] e.name = "AuthenticationError" -> "authentication"
      [] e.name = "NotFoundError" -> "not_found"
      [] e.name = "RateLimitError" -> "rate_limited"
      [] e.name = "QuotaExceededError" -> "quota_exceeded"
      [] e.name = "ServerError" -> "server"
      [] e.name = "NetworkError" -> "network"
      [] e.name = "TimeoutError" -> "timeout"
      [] e.name = "AllscreenshotsError" -> "unknown"
      [] OTHER -> "not_sdk"

RetryableKinds == {"rate_limited", "server", "network", "timeout"}

\* the most recent attempt has failed (and no later attempt has started)
AttemptFailed == attemptErr # {}

LastError == The(attemptErr)

\* the most recent attempt failed with an error made by parseApiError from
\* the response held in resp
HttpFailure ==
    /\ AttemptFailed
    /\ resp # NoResponse
    /\ ~Ok(resp)
    /\ (resp.text # {} \/ req.returnBinary)

MaxRetries == client.retryConfig.maxRetries

-----------------------------------------------------------------------------
(* Properties *)

\* C1: a call run through withRetry with maxRetries = N invokes the operation
\* at most N + 1 times; it gives up on a retryable error only after exactly
\* N + 1 invocations (every attempt failed with a retryable kind), and while
\* it waits for a retry it has made at most N invocations.
C1_AtMostMaxRetriesPlusOne ==
    client.autoRetry =>
        /\ calls <= MaxRetries + 1
        /\ (pc = "waiting" => calls <= MaxRetries)
        /\ (pc = "failed" /\ KindOf(LastError) \in RetryableKinds
                => calls = MaxRetries + 1)

C1_Witness ==
    /\ client.autoRetry
    /\ MaxRetries = 2
    /\ pc = "failed"
    /\ calls = 3
    /\ waits = 2
    /\ KindOf(LastError) = "server"

\* C2: under withRetry, an attempt that fails with a non-retryable kind (or
\* with an error that is not an SDK error) ends the call at once with that
\* error, whatever the attempt index and maxRetries; afterwards there is no
\* wait and no further invocation.
C2_NonRetryableEndsCall ==
    [][/\ (client.autoRetry /\ attemptErr' # {}
             /\ KindOf(The(attemptErr')) \notin RetryableKinds)
          => (pc' = "failed" /\ thrown' = attemptErr')
       /\ (client.autoRetry /\ AttemptFailed
             /\ KindOf(LastError) \notin RetryableKinds)
          => (pc' = "failed" /\ calls' = calls /\ waits' = waits
                /\ thrown' = thrown)]_vars

C2_Witness ==
    /\ client.autoRetry
    /\ pc = "failed"
    /\ attempt = 1
    /\ MaxRetries = 3
    /\ calls = 2
    /\ KindOf(LastError) = "validation"

\* the value an attempt returns for the response held in resp
ExpectedValue ==
    LET text == The(resp.text) IN
    IF req.returnBinary THEN [t |-> "buffer", o |-> EmptyObject, bytes |-> text]
    ELSE IF text.enc = "json" THEN [t |-> "json", o |-> text.o, bytes |-> EmptyText]
    ELSE [t |-> "null", o |-> EmptyObject, bytes |-> EmptyText]

\* C3: as soon as an attempt succeeds the call resolves with that attempt's
\* value: after k retryable failures and a success the operation has been
\* invoked exactly k + 1 times, no error is surfaced, and from then on there
\* is no further invocation or wait.
C3_SuccessResolvesAtOnce ==
    /\ [](pc = "succeeded" =>
            /\ Ok(resp) /\ resp.text # {}
            /\ result = {ExpectedValue}
            /\ thrown = {}
            /\ calls = waits + 1
            /\ calls = attempt + 1)
    /\ [][pc = "succeeded" =>
            (pc' = "succeeded" /\ calls' = calls /\ waits' = waits
                /\ result' = result)]_vars

C3_Witness ==
    /\ client.autoRetry
    /\ MaxRetries = 3
    /\ pc = "succeeded"
    /\ calls = 2
    /\ waits = 1
    /\ result = {[t |-> "json",
                  o |-> ApiErrorResponse({"Invalid URL"}, {}, {}, {}),
                  bytes |-> EmptyText]}

\* C4: the error a failed call rejects with is the error object thrown by the
\* last attempt performed, with every field unchanged.
C4_LastErrorSurfacedUnchanged ==
    pc = "failed" =>
        /\ thrown = attemptErr
        /\ thrown # {}
        /\ The(thrown).id = calls

C4_Witness ==
    /\ client.autoRetry
    /\ pc = "failed"
    /\ calls = 3
    /\ thrown = {[ServerError("Bad Request", 503) EXCEPT !.id = 3]}

\* C5: isRetryableError is true exactly of the kinds rate_limited, server,
\* network and timeout; it is false of the five other kinds and of errors
\* that are not SDK errors.
C5_RetryableExactlyFourKinds ==
    AttemptFailed =>
        /\ KindOf(LastError) \in {"rate_limited", "server", "network", "timeout"}
             => isRetryableError(LastError)
        /\ KindOf(LastError) \in {"validation", "authentication", "not_found",
                                  "quota_exceeded", "unknown", "not_sdk"}
             => ~isRetryableError(LastError)

C5_Witness ==
    /\ AttemptFailed
    /\ KindOf(LastError) = "unknown"
    /\ client.autoRetry
    /\ attempt < MaxRetries
    /\ pc = "failed"

C7_NoAutoRetrySingleAttempt ==
    (~client.autoRetry /\ pc # "noclient") =>
        /\ calls <= 1
        /\ attempt = 0
        /\ waits = 0
        /\ pc # "waiting"
        /\ (pc \in {"fetching", "reading", "succeeded", "failed"} => calls = 1)
        /\ (AttemptFailed => pc = "failed" /\ thrown = attemptErr)
        /\ (pc = "succeeded" => result = {ExpectedValue})

C7_Witness ==
    /\ ~client.autoRetry
    /\ MaxRetries = 2
    /\ pc = "failed"
    /\ calls = 1
    /\ KindOf(LastError) = "rate_limited"
    /\ LastError.retryAfter = {5}

\* C8: an attempt ended by its timeout timer firing fails with the timeout
\* kind; an attempt ended by fetch rejecting, or by the read of the body
\* rejecting (where that rejection is not swallowed), fails with the network
\* kind; neither error carries a status code.
C8_TimeoutVersusNetwork ==
    [][/\ TimerFires =>
            /\ KindOf(The(attemptErr')) = "timeout"
            /\ The(attemptErr').statusCode = {}
       /\ FetchRejects =>
            /\ KindOf(The(attemptErr')) = "network"
            /\ The(attemptErr').statusCode = {}
       /\ (BodyReadFails /\ ~(req.returnBinary /\ ~Ok(resp))) =>
            /\ KindOf(The(attemptErr')) = "network"
            /\ The(attemptErr').statusCode = {}]_vars

C8_Witness ==
    /\ AttemptFailed
    /\ KindOf(LastError) = "timeout"
    /\ LastError.statusCode = {}
    /\ LastError.message = "Request timed out after 30000ms"
    /\ resp = NoResponse

\* the kind the classifier's table gives a status
ExpectedKind(status) ==
    CASE status = 400 -> "validation"
      [] status = 401 -> "authentication"
      [] status = 403 -> "authentication"
      [] status = 402 -> "quota_exceeded"
      [] status = 404 -> "not_found"
      [] status = 429 -> "rate_limited"
      [] status = 500 -> "server"
      [] status = 502 -> "server"
      [] status = 503 -> "server"
      [] status = 504 -> "server"
      [] OTHER -> "unknown"

\* the body parseApiError was given for the response held in resp
ClassifiedBody ==
    IF resp.text = {} THEN NullBody
    ELSE IF req.returnBinary THEN BinaryErrorBody(resp.text)
    ELSE JsonBody(The(resp.text))

\* C9: parseApiError gives every status exactly the kind of the table, for
\* every body; a rate_limited error carries the retry-after hint supplied.
C9_StatusDeterminesKind ==
    /\ HttpFailure =>
          /\ KindOf(LastError) = ExpectedKind(resp.status)
          /\ (resp.status = 429 /\ resp.retryAfter \notin {{}, {<<>>}}
                => LastError.retryAfter = {ParseInt(The(resp.retryAfter))})
    /\ \A s \in Statuses :
          KindOf(parseApiError(s, ClassifiedBody, RetryAfterArg(resp.retryAfter)))
              = ExpectedKind(s)

C9_Witness ==
    /\ HttpFailure
    /\ resp.status = 429
    /\ resp.retryAfter = {<<"5">>}
    /\ KindOf(LastError) = "rate_limited"
    /\ LastError.retryAfter = {5}

\* the machine error code of the body read for the response held in resp
BodyErrorCode ==
    IF resp.text # {} /\ The(resp.text).enc = "json"
    THEN The(resp.text).o.errorCode
    ELSE {}

\* C10: a server error made by parseApiError carries the status of the
\* response; an unknown-kind error carries the status of the response and the
\* error code of a structured body, and no error code otherwise.
C10_StatusAndCodePreserved ==
    HttpFailure =>
        /\ KindOf(LastError) = "server" => LastError.statusCode = {resp.status}
        /\ KindOf(LastError) = "unknown" =>
              /\ LastError.statusCode = {resp.status}
              /\ LastError.errorCode = BodyErrorCode

C10_Witness ==
    /\ HttpFailure
    /\ resp.status = 418
    /\ KindOf(LastError) = "unknown"
    /\ LastError.statusCode = {418}
    /\ LastError.errorCode = {"E_TEAPOT"}
    /\ LastError.message = "I'm a teapot"

\* the message the priority rule gives for a status and a classified body; a
\* field that is unset or the empty string counts as absent
ExpectedMessage(status, body) ==
    IF body.t = "string" THEN body.s
    ELSE IF body.t = "object" /\ body.o.message \notin {{}, {""}}
    THEN The(body.o.message)
    ELSE IF body.t = "object" /\ body.o.error \notin {{}, {""}}
    THEN The(body.o.error)
    ELSE "HTTP " \o ToString(status) \o " error"

\* C11: the message of a classified error is the body itself when the body is
\* a string, else the body's (non-empty) message field, else its (non-empty)
\* error field, else 'HTTP <status> error', also for an absent body; a
\* validation error (status 400) carries the validation-errors map of a
\* structured body, and none otherwise.
C11_MessagePriority ==
    /\ HttpFailure =>
          /\ LastError.message = ExpectedMessage(resp.status, ClassifiedBody)
          /\ (resp.status = 400 =>
                LastError.validationErrors =
                    (IF ClassifiedBody.t = "object"
                     THEN ClassifiedBody.o.validationErrors ELSE {}))
    /\ \A s \in Statuses :
          parseApiError(s, ClassifiedBody, RetryAfterArg(resp.retryAfter)).message
              = ExpectedMessage(s, ClassifiedBody)

C11_Witness ==
    /\ HttpFailure
    /\ resp.status = 400
    /\ ClassifiedBody.t = "object"
    /\ LastError.message = "Validation failed"
    /\ LastError.validationErrors = {"url: Invalid format"}

\* the zero-jitter delay of the backoff rule: min(initialDelay * multiplier^i,
\* maxDelay)
BaseDelay(i, config) ==
    Min(config.initialDelayMs * Pow(config.backoffMultiplier, i), config.maxDelayMs)

AttemptIndices == 0..MaxAttemptIndex

\* the delay calculateDelay gives with jitter factor 0 is the capped power, for
\* every attempt index and every random draw
ZeroJitterIsCappedPower ==
    (client # NoClient /\ client.retryConfig.jitterPct = 0) =>
        \A i \in AttemptIndices : \A r \in JitterDraws :
            calculateDelay(i, client.retryConfig, r) = BaseDelay(i, client.retryConfig)

\* C12: with jitter factor 0, calculateDelay(i, config) is
\* min(initialDelay * multiplier^i, maxDelay) for every attempt index i >= 0,
\* whatever the random draw; it is initialDelay for i = 0 and never exceeds
\* maxDelay.
C12_ZeroJitterDelay ==
    (client # NoClient /\ client.retryConfig.jitterPct = 0) =>
        \A i \in AttemptIndices : \A r \in JitterDraws :
            LET d == calculateDelay(i, client.retryConfig, r) IN
            /\ d = BaseDelay(i, client.retryConfig)
            /\ (i = 0 => d = client.retryConfig.initialDelayMs)
            /\ d <= client.retryConfig.maxDelayMs

\* a delay d lies in the jitter band of attempt index i: within
\* [base * (1 - j), base * (1 + j)], not negative, not above maxDelay * (1 + j)
\* (j is held in percent, so both sides are scaled by 100)
InJitterBand(d, i, config) ==
    /\ 100 * d >= BaseDelay(i, config) * (100 - config.jitterPct)
    /\ 100 * d <= BaseDelay(i, config) * (100 + config.jitterPct)
    /\ d >= 0
    /\ 100 * d <= config.maxDelayMs * (100 + config.jitterPct)

\* C13: with jitter factor j in (0, 1], every value calculateDelay can return
\* for attempt index i lies in [base * (1 - j), base * (1 + j)] where
\* base = min(initialDelay * multiplier^i, maxDelay); it is never negative and
\* never above maxDelay * (1 + j). The same holds of the wait the call
\* actually observes when no retry-after hint replaces it.
C13_JitterBand ==
    (client # NoClient /\ client.retryConfig.jitterPct \in 1..100) =>
        /\ \A i \in AttemptIndices : \A r \in JitterDraws :
              InJitterBand(calculateDelay(i, client.retryConfig, r), i, client.retryConfig)
        /\ (pc = "waiting" /\ LastError.retryAfter = {}) =>
              InJitterBand(delay, attempt, client.retryConfig)

C13_Witness ==
    /\ pc = "waiting"
    /\ LastError.retryAfter = {}
    /\ client.retryConfig.jitterPct = 50
    /\ attempt = 0
    /\ delay = 100

\* neither the configuration nor the environment supplies a non-empty key
NoKeySupplied == cfg.apiKey \in {{}, {""}} /\ processEnv \in {{}, {""}}

\* C14: constructing a client when neither the configuration nor the
\* environment supplies a non-empty API key throws and yields no client, and
\* from then on nothing is ever dispatched; when either source supplies a key
\* construction succeeds with a non-empty credential; every fetch that is made
\* carries a non-empty key.
C14_NoClientWithoutKey ==
    /\ [][(pc = "new" /\ pc' # "new") =>
            IF NoKeySupplied
            THEN pc' = "noclient" /\ client' = NoClient /\ thrown' # {}
            ELSE pc' = "idle" /\ client' # NoClient /\ client'.apiKey # ""
                 /\ thrown' = {}]_vars
    /\ [][pc = "noclient" =>
            pc' = "noclient" /\ calls' = 0 /\ sent' = NoFetch]_vars
    /\ [](sent # NoFetch => sent.headers["X-API-Key"] # "")

C14_Witness ==
    /\ pc = "noclient"
    /\ cfg.apiKey = {}
    /\ processEnv = {""}
    /\ thrown = {AuthenticationError(MissingKeyMessage)}
    /\ client = NoClient

\* C15: the error reported for a missing credential at construction is of a
\* kind no failed request produces: no attempt's error, and no error a request
\* rejects with, has the kind of the construction-time error.
C15_ConstructionErrorDistinct ==
    /\ AttemptFailed => KindOf(LastError) # KindOf(ConstructionError)
    /\ (pc = "failed" /\ thrown # {}) =>
          KindOf(The(thrown)) # KindOf(ConstructionError)

\* C16: the credential is resolved once, at construction, and the configured
\* key wins over the environment value: a client built from a configuration
\* with a non-empty key holds that key whatever the environment holds; every
\* fetch sends the key the client holds; and no step after construction, a
\* change of the environment included, changes the key the client holds or
\* the key a later fetch sends.
C16_ConfiguredKeyWins ==
    /\ [](client # NoClient =>
            /\ (cfg.apiKey \notin {{}, {""}} => client.apiKey = The(cfg.apiKey))
            /\ (sent # NoFetch => sent.headers["X-API-Key"] = client.apiKey))
    /\ [][client # NoClient => client'.apiKey = client.apiKey]_vars
    /\ [][(sent # NoFetch /\ processEnv' # processEnv) =>
            sent'.headers["X-API-Key"] = sent.headers["X-API-Key"]]_vars
    /\ [][(pc = "new" /\ pc' = "idle" /\ cfg.apiKey \notin {{}, {""}}) =>
            client'.apiKey = The(cfg.apiKey)]_vars

C16_Witness ==
    /\ cfg.apiKey = {"config-key"}
    /\ processEnv = {"other-key"}
    /\ pc = "fetching"
    /\ calls = 2
    /\ sent.headers["X-API-Key"] = "config-key"

\* C17: every failure of an attempt is an SDK error of one of the nine kinds,
\* at every failure point (address composition, body serialisation, dispatch,
\* body read, decoding, non-2xx status), so is every error a request rejects
\* with; and an attempt reports success only for a 2xx response whose body
\* was read.
C17_EveryFailureClassified ==
    /\ AttemptFailed => IsSdkError(LastError)
    /\ (pc = "failed" /\ thrown # {}) => IsSdkError(The(thrown))
    /\ pc = "succeeded" => (Ok(resp) /\ resp.text # {})

\* an attempt is on the network: its fetch is pending or its response is
\* being read
OnNetwork == pc \in {"fetching", "reading"}

\* C18: every network attempt, retries included, carries the credential of
\* the client in the X-API-Key header and an Accept header fixed by the
\* response mode alone ('image/*,application/pdf' in binary mode,
\* 'application/json' in structured mode); an attempt with a body carries
\* Content-Type application/json and the serialised body.
C18_HeadersOfEveryAttempt ==
    OnNetwork =>
        /\ sent # NoFetch
        /\ sent.headers["X-API-Key"] = client.apiKey
        /\ client.apiKey # ""
        /\ sent.headers["Accept"] =
              (IF req.returnBinary THEN "image/*,application/pdf"
               ELSE "application/json")
        /\ (req.body # {} =>
              /\ sent.body # {}
              /\ sent.headers["Content-Type"] = "application/json")

C18_Witness ==
    /\ pc = "fetching"
    /\ calls = 2
    /\ req.returnBinary
    /\ req.body # {}
    /\ sent.headers["Accept"] = "image/*,application/pdf"
    /\ sent.headers["Content-Type"] = "application/json"
    /\ sent.headers["X-API-Key"] = "config-key"

\* the entries of the address's query string whose key is k
ParamsOf(k) == {j \in DOMAIN sent.searchParams : sent.searchParams[j][1] = k}

\* C19: the target address of an attempt has exactly one query parameter for
\* each key of the descriptor whose value is defined, holding the value
\* rendered as a string, no parameter for a key whose value is undefined, and
\* no other parameter; the address ends with a query string exactly when
\* there is such a parameter.
C19_DefinedQueryParameters ==
    OnNetwork =>
        /\ \A i \in DOMAIN req.query :
              LET e == req.query[i] IN
              IF e.value = {} THEN ParamsOf(e.key) = {}
              ELSE /\ Cardinality(ParamsOf(e.key)) = 1
                   /\ \A j \in ParamsOf(e.key) :
                         sent.searchParams[j][2] =
                             (IF The(e.value).t = "number"
                              THEN ToString(The(e.value).n) ELSE The(e.value).s)
        /\ \A j \in DOMAIN sent.searchParams :
              \E i \in DOMAIN req.query : req.query[i].key = sent.searchParams[j][1]
        /\ sent.url = client.baseUrl \o req.path \o
                        (IF sent.searchParams = <<>> THEN ""
                         ELSE "?" \o SearchString(sent.searchParams))

C19_Witness ==
    /\ pc = "fetching"
    /\ Len(req.query) = 5
    /\ sent.url = "https://api.allscreenshots.com/v1/screenshots/compose/preview?layout=grid&image_count=0&canvas_height=10&aspect_ratios=16%3A9"

\* a string ends with the path separator
EndsWithSeparator(str) == Len(str) > 0 /\ SubSeq(str, Len(str), Len(str)) = "/"

\* the base address of a client built by the builder has no trailing separator
BuilderStripsSeparators ==
    (client # NoClient /\ cfg \in BuiltConfigs) => ~EndsWithSeparator(client.baseUrl)

\* C20: the base address a client uses to compose target addresses never
\* ends with a path separator, whether the address came through the builder
\* or through the constructor configuration.
C20_BaseUrlHasNoTrailingSeparator ==
    client # NoClient => ~EndsWithSeparator(client.baseUrl)

\* C21: within one logical call the retry controller alternates strictly. A
\* wait is entered only from a running attempt that failed with a retryable
\* error while retries remain, and exactly once per such failure; the next
\* attempt starts only by the step that ends the wait, and the attempt index
\* grows by exactly one with it and at no other step; while the call waits no
\* attempt is in flight and no timer is armed, and the attempt in flight is
\* always the one invocation started after the last wait.
C21_StrictAlternation ==
    /\ [][(pc # "waiting" /\ pc' = "waiting") =>
            /\ pc \in {"idle", "fetching", "reading"}
            /\ waits' = waits + 1
            /\ attempt' = attempt
            /\ attemptErr' # {}
            /\ KindOf(The(attemptErr')) \in RetryableKinds
            /\ attempt < client.retryConfig.maxRetries]_vars
    /\ [][(pc = "waiting" /\ pc' # "waiting") =>
            /\ attempt' = attempt + 1
            /\ calls' = calls + 1
            /\ waits' = waits]_vars
    /\ [][attempt' # attempt => pc = "waiting"]_vars
    /\ [][calls' # calls => (pc \in {"idle", "waiting"} /\ calls' = calls + 1)]_vars
    /\ [](pc = "waiting" => (timers = {} /\ waits = attempt + 1 /\ calls = attempt + 1))
    /\ [](OnNetwork => (waits = attempt /\ calls = attempt + 1))

C21_Witness ==
    /\ pc = "fetching"
    /\ attempt = 2
    /\ waits = 2
    /\ calls = 3

\* C22: each attempt arms its own timer with the full configured timeout,
\* and no other timer is armed while its fetch is pending; once an attempt
\* has finished, by success or by any failure, no timer is left armed, so
\* none is while the call waits or after it ended; and an attempt fails with
\* a timeout only by the firing of the timer it armed itself.
C22_TimerPerAttempt ==
    /\ [](pc = "fetching" => timers = {Timer(calls, client.timeout)})
    /\ [](pc \in {"waiting", "succeeded", "failed", "idle", "new", "noclient"}
            => timers = {})
    /\ [](timers \subseteq {Timer(calls, client.timeout)})
    /\ [][(attemptErr' # attemptErr /\ attemptErr' # {}
            /\ KindOf(The(attemptErr')) = "timeout")
          => (pc = "fetching" /\ Timer(calls, client.timeout) \in timers
              /\ calls' = calls)]_vars

C22_Witness ==
    /\ pc = "fetching"
    /\ calls = 2
    /\ attempt = 1
    /\ timers = {Timer(2, 30000)}

\* the armed timers of logical call id
TimersOf(id) == {t \in timers : t.call = id}

\* the locals c of logical call id are what a call running alone has for the
\* request it was given and the responses it received: its counters count its
\* own attempts, its own timer is armed exactly while its fetch is pending,
\* its fetch carries its own request, and its outcome is the one of its own
\* last attempt
AsIfAlone(c, id) ==
    /\ c.attempt <= (IF client.autoRetry THEN client.retryConfig.maxRetries ELSE 0)
    /\ c.pc \in {"fetching", "reading", "succeeded", "failed"} =>
          (c.calls = c.attempt + 1 /\ c.waits = c.attempt)
    /\ c.pc = "waiting" => (c.calls = c.attempt + 1 /\ c.waits = c.attempt + 1)
    /\ TimersOf(id) =
          (IF c.pc = "fetching"
           THEN {[call |-> id, owner |-> c.calls, ms |-> client.timeout]} ELSE {})
    /\ c.pc \in {"fetching", "reading"} => c.sent = FetchArgs(client, c.req)
    /\ c.pc = "succeeded" =>
          /\ Ok(c.resp) /\ c.resp.text # {} /\ c.thrown = {}
          /\ c.result =
                {IF c.req.returnBinary THEN BufferValue(The(c.resp.text))
                 ELSE BodyValue(JsonBody(The(c.resp.text)))}
    /\ c.pc = "failed" =>
          /\ c.thrown = c.attemptErr /\ c.result = {}
          /\ (KindOf(The(c.attemptErr)) \in RetryableKinds /\ client.autoRetry)
                => c.attempt = client.retryConfig.maxRetries
          /\ (c.resp # NoResponse /\ c.resp.text # {} /\ ~Ok(c.resp)) =>
                KindOf(The(c.thrown)) = ExpectedKind(c.resp.status)
    /\ c.pc = "waiting" =>
          /\ c.attemptErr # {} /\ c.thrown = {} /\ c.result = {}
          /\ KindOf(The(c.attemptErr)) \in RetryableKinds

\* C23: when two logical calls on the same client are interleaved in any
\* way, a step of one call (a timeout, a failure, a retry, a wait, a success)
\* never changes the request, the counters, the response, the error, the
\* result or the timers of the other, and the locals of each call are always
\* those of a call running alone against the responses it received itself.
C23_CallsAreIndependent ==
    /\ [][cur' = cur =>
            /\ other' = other
            /\ {t \in timers' : t.call # cur} = {t \in timers : t.call # cur}]_vars
    /\ [][cur' # cur =>
            (Current' = other /\ other' = Current /\ timers' = timers)]_vars
    /\ [](client # NoClient =>
            (AsIfAlone(Current, cur) /\ AsIfAlone(other, 3 - cur)))

C23_Witness ==
    /\ pc = "waiting"
    /\ KindOf(LastError) = "timeout"
    /\ other.pc = "fetching"
    /\ other.calls = 2
    /\ timers = {[call |-> 3 - cur, owner |-> 2, ms |-> 60000]}

\* the logical call is in progress / has ended
InProgress == pc \in {"fetching", "reading", "waiting"}
Terminal == pc \in {"succeeded", "failed"}

\* C24: every logical call eventually reaches one of the terminal states
\* succeeded and failed and never leaves it, given that every pending fetch
\* eventually resolves, rejects or is aborted by its timer and that every
\* backoff sleep eventually ends.
C24_EveryCallTerminates ==
    /\ InProgress ~> Terminal
    /\ [][Terminal => pc' = pc]_vars

\* the statuses after which the call may try again
RetriedStatuses == {429, 500, 502, 503, 504}

\* C25: through the client with autoRetry enabled, after an attempt that
\* failed with a non-2xx response the call waits for a further attempt
\* exactly when the status is 429, 500, 502, 503 or 504 and retries remain;
\* after every other failure status (400, 401, 402, 403, 404, 408, 418, 501)
\* the call has ended with that attempt's error.
C25_RetriedStatuses ==
    (HttpFailure /\ client.autoRetry) =>
        /\ pc \in {"waiting", "failed"}
        /\ pc = "waiting" <=> (resp.status \in RetriedStatuses /\ attempt < MaxRetries)
        /\ pc = "failed" => thrown = attemptErr

C25_Witness ==
    /\ HttpFailure
    /\ client.autoRetry
    /\ MaxRetries = 3
    /\ attempt = 1
    /\ resp.status = 408
    /\ pc = "failed"

\* the body read for the response held in resp is empty or is not JSON
Undecodable(text) == text # {} /\ The(text).enc # "json"

\* C26: in structured mode, reading an empty or undecodable body of a 2xx
\* response ends the call at once as a success whose value is null: no error
\* is recorded or surfaced, and there is no wait and no further invocation.
C26_DecodeFailureIsNoError ==
    /\ [](pc = "succeeded" /\ ~req.returnBinary /\ Undecodable(resp.text)
            => result = {NullValue} /\ thrown = {} /\ attemptErr = {})
    /\ [][pc = "reading" /\ Ok(resp) /\ ~req.returnBinary /\ Undecodable(resp'.text)
            => /\ pc' = "succeeded"
               /\ result' = {NullValue}
               /\ attemptErr' = {}
               /\ calls' = calls
               /\ waits' = waits]_vars

C26_Witness ==
    /\ pc = "succeeded"
    /\ ~req.returnBinary
    /\ resp.status = 200
    /\ resp.text = {RawText("Plain text error")}
    /\ result = {NullValue}
    /\ client.autoRetry

\* the body the classifier is to be given in structured mode: the decoded
\* body when the text decodes, the raw text when it is non-empty and does
\* not, null for an empty text
C27_ExpectedBody ==
    LET text == The(resp.text) IN
    IF text.enc = "json" THEN ObjectBody(text.o)
    ELSE IF text.enc = "raw" THEN StringBody(text.s)
    ELSE NullBody

\* C27: in structured mode the error of a non-2xx response is classified from
\* the decoded body when the body decodes and from the raw text when it does
\* not; for a non-empty text that is not JSON the message is that text.
C27_RawTextClassifies ==
    (HttpFailure /\ ~req.returnBinary) =>
        /\ LastError.message = ExpectedMessage(resp.status, C27_ExpectedBody)
        /\ (The(resp.text).enc = "raw" => LastError.message = The(resp.text).s)

\* the body the classifier is to be given in binary mode: the decoded body,
\* the raw text when it does not decode, null for an unread or empty body
C28_ExpectedBody ==
    IF resp.text = {} THEN NullBody
    ELSE LET text == The(resp.text) IN
         IF text.enc = "json" THEN ObjectBody(text.o)
         ELSE IF text.enc = "raw" THEN StringBody(text.s)
         ELSE NullBody

\* C28: in binary mode the error of a non-2xx response is classified from the
\* decoded body, from the raw text when it does not decode, and from null when
\* the body is unreadable or empty, so that an empty body gives the message
\* 'HTTP <status> error'; a Retry-After header present reaches the classifier.
C28_BinaryErrorBody ==
    (HttpFailure /\ req.returnBinary) =>
        /\ LastError.message = ExpectedMessage(resp.status, C28_ExpectedBody)
        /\ (resp.text \in {{}, {EmptyText}} =>
                LastError.message = "HTTP " \o ToString(resp.status) \o " error")
        /\ (resp.status = 429 => LastError.retryAfter = RetryAfterArg(resp.retryAfter))

\* the constructor has returned a client
Constructed == pc \notin {"new", "noclient"}

\* C29: the constructor gives every retry field the caller's value when the
\* caller supplied one and the default otherwise; from then on no request,
\* retry, failure or mutation of the builder or of the configuration object
\* changes the client's credential, base address, timeout, flag or retry
\* configuration, and every timer the client arms runs for its timeout.
C29_FixedAtConstruction ==
    /\ [][pc = "new" /\ pc' = "idle" =>
            \A f \in RetryFields :
                client'.retryConfig[f] =
                    (IF cfg.retry[f] = {} THEN DEFAULT_RETRY_CONFIG[f]
                     ELSE The(cfg.retry[f]))]_vars
    /\ [][Constructed => client' = client]_vars
    /\ [](Constructed => \A t \in timers : t.ms = client.timeout)

C29_Witness ==
    /\ pc = "failed"
    /\ calls = 2
    /\ cfg.timeout = {1}
    /\ cfg.retry.maxRetries = {0}
    /\ cfg.autoRetry = {FALSE}
    /\ client.timeout = 60000
    /\ client.autoRetry
    /\ client.retryConfig = RetryConfig(1, 1000, 600, 2, 10)

\* C30: the retry configuration of every constructed client has
\* initialDelayMs <= maxDelayMs, whatever partial retry configuration the
\* caller supplied.
C30_InitialDelayWithinMaxDelay ==
    Constructed => client.retryConfig.initialDelayMs <= client.retryConfig.maxDelayMs

\* C31: the error parseApiError makes for a response carries that response's
\* status in its statusCode field, for every status and every body.
C31_StatusCodeIsTheStatus ==
    HttpFailure => LastError.statusCode = {resp.status}

\* the delays exponential backoff computes for attempt index i
ComputedDelays(i) == {calculateDelay(i, client.retryConfig, r) : r \in JitterDraws}

\* C32: only a rate_limited failure carries a retry-after hint; the error of
\* a response of any other status has none, whatever its Retry-After header,
\* and the wait after a failure that is not rate_limited is a delay that
\* exponential backoff computes for the attempt index.
C32_HintOnlyForRateLimited ==
    /\ (AttemptFailed /\ KindOf(LastError) # "rate_limited") => LastError.retryAfter = {}
    /\ (pc = "waiting" /\ KindOf(LastError) # "rate_limited") => delay \in ComputedDelays(attempt)

C32_Witness ==
    /\ pc = "waiting"
    /\ HttpFailure
    /\ resp.status = 503
    /\ resp.retryAfter = {<<"5">>}
    /\ client.retryConfig = DEFAULT_RETRY_CONFIG
    /\ delay = 1100

\* the timeout timer of the attempt under way is armed
OwnTimerArmed == \E t \in timers : t.call = cur /\ t.owner = calls

\* C33: an attempt that has not completed, whether its fetch is pending or
\* its response body is still being read, has its timeout timer armed, so
\* that it ends with a timeout error when the timer fires.
C33_PendingAttemptHasTimer ==
    pc \in {"fetching", "reading"} => OwnTimerArmed

\* C34: the fetch of a retry attempt has the URL, query string, method,
\* headers and serialised body of the fetch of the attempt before it, hence
\* of the first attempt, whatever that attempt's response or error was; the
\* request and the client are those of the first attempt.
C34_RetriesRepeatTheRequest ==
    [][pc = "waiting" =>
          /\ req' = req
          /\ client' = client
          /\ (pc' = "fetching" =>
                /\ sent # NoFetch
                /\ sent' = sent
                /\ calls' = calls + 1)]_vars

C34_Witness ==
    /\ pc = "fetching"
    /\ calls = 3
    /\ waits = 2
    /\ sent.searchParams # <<>>
    /\ sent = FetchArgs(client, req)

====
